---------------------------- MODULE Spec2Model ----------------------------
(***************************************************************************)
(* gst-multisource-launch (src/src/main.c): the supervisor of one          *)
(* GStreamer pipeline built from a list of source URIs.                    *)
(*                                                                         *)
(* The program is main() followed by a single-threaded GLib main loop that *)
(* dispatches three sources: the bus signal watch (message_cb), the stdin  *)
(* watch (handle_keyboard, interactive mode only) and the SIGINT watch     *)
(* (intr_handler).  Every callback runs to completion, so each one is one  *)
(* action.  The pipeline itself belongs to the framework: it is modelled   *)
(* by its current state `cur`, the last accepted state request `req`, and  *)
(* the queue `bus` of the state-changed messages it has posted for the     *)
(* top-level pipeline.  Messages posted by inner elements (errors,         *)
(* buffering, stream collections, ...) can be emitted at any time, so      *)
(* their emission and their dispatch are one step whose content is chosen  *)
(* when it is dispatched.                                                  *)
(***************************************************************************)
EXTENDS Integers, Sequences, FiniteSets, TLC

VARIABLES
    argv,                 \* the command line
    media,                \* what the sources hold: "movie" or "any"
    pc,                   \* position of main(); "exit" once it has returned,
                          \* "crashed" when the process was aborted instead
    res,                  \* main: int res (the exit code)
    err,                  \* main: GError *err ("none" when NULL)
    uris,                 \* main: full_branch_desc_array (-s), <<>> when NULL
    interactive,          \* main: interactive (-i), copied to thiz->interactive
    verbose,              \* thiz->verbose (-v)
    streams_selected,     \* thiz->streams_selected, the bit mask as a set
    muxer,                \* thiz->muxer, "NULL" until set
    sink,                 \* thiz->sink, "NULL" until set
    pipeline_description, \* thiz->pipeline_description, <<>> when NULL
    state,                \* thiz->state
    auto_play,            \* thiz->auto_play
    buffering,            \* thiz->buffering
    is_live,              \* thiz->is_live
    loop,                 \* thiz->loop: "NULL", "running", "quit", "unref"
    pipeline,             \* thiz->pipeline: "NULL", "alive", "freed"
    deep_notify_id,       \* thiz->deep_notify_id
    signal_watch,         \* thiz->signal_watch_intr_id # 0
    live,                 \* framework: the pipeline has a live source
    reliable,             \* framework: the pipeline rejects no state request
    cur,                  \* framework: the pipeline's current state
    req,                  \* framework: the last accepted state request
    bus,                  \* framework: queued state-changed messages of the pipeline
    ev,                   \* the event the last step handled
    calls,                \* the gst_element_set_state calls the last step made
    selection,            \* the select-streams event the last step sent
    ops                   \* what the teardown (done:) did, in order

vars == <<argv, media, pc, res, err, uris, interactive, verbose, streams_selected,
          muxer, sink, pipeline_description, state, auto_play, buffering, is_live, loop,
          pipeline, deep_notify_id, signal_watch, live, reliable, cur, req, bus, ev,
          calls, selection, ops>>

(***************************************************************************)
(* Bounds of the model.                                                    *)
(***************************************************************************)
MaxBus == 3
MaxStreams == 2
MaxSources == 1
MaxBranches == 3

(***************************************************************************)
(* Values.                                                                 *)
(***************************************************************************)
\* GstState, in the order of the enumeration
GstStates == <<"VOID_PENDING", "NULL", "READY", "PAUSED", "PLAYING">>

Rank(s) == CHOOSE i \in 1..Len(GstStates) : GstStates[i] = s

\* the states a pipeline can be in
Lifecycle == {"NULL", "READY", "PAUSED", "PLAYING"}

\* GstStateChangeReturn of a request, by the kind of pipeline
Returns ==
    {"SUCCESS", "ASYNC"} \cup (IF live THEN {"NO_PREROLL"} ELSE {})
                         \cup (IF reliable THEN {} ELSE {"FAILURE"})

\* GstStreamType of the streams of a collection
StreamTypes == {"audio", "video", "text"}

Percents == {0, 99, 100}

Keys == {"q", "p", "s", "x"}

SeqsUpTo(S, n) == UNION {[1..k -> S] : k \in 0..n}

\* the URIs given with -s
URIs == {"a"}

\* a command line: whether it parses, and the options it gives
Args(ok, s, m, k, v, a, vd, i) ==
    [ok |-> ok, source |-> s, muxer |-> m, sink |-> k, verbose |-> v,
     audio_only |-> a, video_only |-> vd, interactive |-> i]

\* the command lines of the lifecycle: with and without -i and -v, with
\* sources or none, or not parsing at all
Cmdlines ==
    {Args(ok, s, "NULL", "NULL", v, FALSE, FALSE, i) :
        ok \in BOOLEAN, s \in SeqsUpTo(URIs, MaxSources), v \in BOOLEAN,
        i \in BOOLEAN}

\* the command lines of the stream selection: every filter
SelectCmdlines ==
    {Args(TRUE, <<u>>, "NULL", "NULL", FALSE, a, vd, FALSE) :
        u \in URIs, a \in BOOLEAN, vd \in BOOLEAN}

\* the command lines of the description: lists of up to MaxBranches of two
\* URIs, with and without -m and -S
BuildCmdlines ==
    {Args(TRUE, s, m, k, FALSE, FALSE, FALSE, FALSE) :
        s \in SeqsUpTo({"a", "b"}, MaxBranches), m \in {"NULL", "matroskamux"},
        k \in {"NULL", "filesink"}}

\* the stream collections the sources of a run can give rise to
Collections ==
    IF media = "movie" THEN {<<"video", "audio">>}
    ELSE SeqsUpTo(StreamTypes, MaxStreams)

\* names of the elements that post a stream collection
Posters == {"decodebin3-0", "parsebin0", "urisourcebin0"}

NoEvent == [type |-> "none", src |-> "", new |-> "", percent |-> 0, streams |-> <<>>]

Event(t, s, n, p, c) == [type |-> t, src |-> s, new |-> n, percent |-> p, streams |-> c]

NoSelection == [to |-> "", streams |-> <<>>]

Call(by, to, ret) == [by |-> by, to |-> to, ret |-> ret]


(***************************************************************************)
(* The framework's side of a state request.  A rejected request changes    *)
(* nothing; an accepted one becomes the state the pipeline moves to.  The  *)
(* supervisor never reads the pipeline's state back, so a synchronous      *)
(* completion (SUCCESS) and an asynchronous one (ASYNC) differ only in the *)
(* value returned: the confirmations arrive on the bus in both cases.      *)
(***************************************************************************)
gst_element_set_state(by, to, ret) ==
    /\ req' = IF ret = "FAILURE" THEN req ELSE [to |-> to, by |-> by]
    /\ calls' = <<Call(by, to, ret)>>

\* the pipeline moves one state towards the requested one and posts the
\* state-changed message of that step
Towards(from, to) ==
    IF Rank(from) < Rank(to) THEN GstStates[Rank(from) + 1] ELSE GstStates[Rank(from) - 1]

\* set_player_state(): the request, and the liveness flag on NO_PREROLL
set_player_state(by, to, ret) ==
    /\ gst_element_set_state(by, to, ret)
    /\ is_live' = (is_live \/ ret = "NO_PREROLL")

\* change_player_state() without the Playing request of the auto-play chain
change_player_state_no_playing(new) ==
    IF state = new
    THEN /\ calls' = <<>>
         /\ UNCHANGED <<state, is_live, req>>
    ELSE /\ state' = new
         /\ IF new = "READY" /\ auto_play
            THEN \E ret \in Returns : set_player_state("auto", "PAUSED", ret)
            ELSE /\ calls' = <<>>
                 /\ UNCHANGED <<is_live, req>>

\* change_player_state() that advances whether auto-play is enabled or not
change_player_state_always_auto(new) ==
    IF state = new
    THEN /\ calls' = <<>>
         /\ UNCHANGED <<state, is_live, req>>
    ELSE /\ state' = new
         /\ IF new = "READY"
            THEN \E ret \in Returns : set_player_state("auto", "PAUSED", ret)
            ELSE IF new = "PAUSED"
            THEN \E ret \in Returns : set_player_state("auto", "PLAYING", ret)
            ELSE /\ calls' = <<>>
                 /\ UNCHANGED <<is_live, req>>

\* change_player_state() without the test of the recorded state
change_player_state_no_test(new) ==
    /\ state' = new
    /\ IF new = "READY" /\ auto_play
       THEN \E ret \in Returns : set_player_state("auto", "PAUSED", ret)
       ELSE IF new = "PAUSED" /\ auto_play
       THEN \E ret \in Returns : set_player_state("auto", "PLAYING", ret)
       ELSE /\ calls' = <<>>
            /\ UNCHANGED <<is_live, req>>

\* change_player_state(): a confirmed state of the pipeline
change_player_state(new) ==
    IF state = new
    THEN /\ calls' = <<>>
         /\ UNCHANGED <<state, is_live, req>>
    ELSE /\ state' = new
         /\ IF new = "READY" /\ auto_play
            THEN \E ret \in Returns : set_player_state("auto", "PAUSED", ret)
            ELSE IF new = "PAUSED" /\ auto_play
            THEN \E ret \in Returns : set_player_state("auto", "PLAYING", ret)
            ELSE /\ calls' = <<>>
                 /\ UNCHANGED <<is_live, req>>

\* quit_app(): g_main_loop_quit() when the loop exists
quit_app == loop' = IF loop = "NULL" THEN loop ELSE "quit"

\* add_branch() that gives every branch the muxer and the sink
add_branch_suffix_each(desc, src_uri) ==
    desc \o <<(IF desc = <<>> THEN "" ELSE " ") \o "urisourcebin uri=", src_uri,
              " ! decodebin3 ! ", muxer, " name=muxer ! ", sink>>

\* add_branch(): the description with the branch of one more source
add_branch(desc, src_uri) ==
    IF desc = <<>>
    THEN <<"urisourcebin uri=", src_uri, " ! decodebin3 ! ", muxer,
           " name=muxer ! ", sink>>
    ELSE desc \o <<" urisourcebin uri=", src_uri, " ! decodebin3 ! muxer.">>

\* main(): the loop over the sources (repeat is 1)
RECURSIVE Branches(_, _)
Branches(desc, list) ==
    IF list = <<>> THEN desc
    ELSE Branches(add_branch(desc, Head(list)), Tail(list))

(***************************************************************************)
(* main() up to the run loop.                                              *)
(***************************************************************************)
options == <<uris, interactive, verbose, streams_selected, muxer, sink>>
graph   == <<pipeline_description, pipeline, live, reliable, cur, bus>>
thiz    == <<state, auto_play, buffering, is_live, deep_notify_id, signal_watch>>
output  == <<selection, ops>>

Start(cmdlines, sources) ==
    /\ argv \in cmdlines
    /\ media = sources
    /\ pc = "options"
    /\ res = 0
    /\ err = "none"
    /\ uris = <<>>
    /\ interactive = FALSE
    /\ verbose = FALSE
    /\ streams_selected = {}
    /\ muxer = "NULL"
    /\ sink = "NULL"
    /\ pipeline_description = <<>>
    /\ state = "VOID_PENDING"
    /\ auto_play = FALSE
    /\ buffering = FALSE
    /\ is_live = FALSE
    /\ loop = "NULL"
    /\ pipeline = "NULL"
    /\ deep_notify_id = 0
    /\ signal_watch = FALSE
    /\ live = FALSE
    /\ reliable = FALSE
    /\ cur = "NULL"
    /\ req = [to |-> "NULL", by |-> "none"]
    /\ bus = <<>>
    /\ ev = NoEvent
    /\ calls = <<>>
    /\ selection = NoSelection
    /\ ops = <<>>

\* the runs of the lifecycle play a source with one video and one audio
\* stream; the runs of the stream selection meet every collection
Init ==
    \/ Start(Cmdlines, "movie")
    \/ Start(SelectCmdlines, "any")

\* main(), lines 442-476, without the test of the source list
ParseOptions_any_list ==
    /\ pc = "options"
    /\ ev' = Event("options", "", "", 0, <<>>)
    /\ IF ~argv.ok
       THEN /\ err' = "options"
            /\ res' = -1
            /\ pc' = "done"
            /\ UNCHANGED options
       ELSE /\ uris' = argv.source
            /\ interactive' = argv.interactive
            /\ verbose' = argv.verbose
            /\ streams_selected' = (IF argv.audio_only THEN {"audio"} ELSE {})
                                     \cup (IF argv.video_only THEN {"video"} ELSE {})
            /\ pc' = "build"
            /\ muxer' = IF argv.muxer = "NULL" THEN "multipartmux" ELSE argv.muxer
            /\ sink' = IF argv.sink = "NULL" THEN "fakesink" ELSE argv.sink
            /\ UNCHANGED <<err, res>>
    /\ UNCHANGED <<argv, media, graph, thiz, loop, req, calls, output>>

\* main(), lines 442-476: the command line
ParseOptions ==
    /\ pc = "options"
    /\ ev' = Event("options", "", "", 0, <<>>)
    /\ IF ~argv.ok
       THEN /\ err' = "options"
            /\ res' = -1
            /\ pc' = "done"
            /\ UNCHANGED options
       ELSE /\ uris' = argv.source
            /\ interactive' = argv.interactive
            /\ verbose' = argv.verbose
            /\ streams_selected' = (IF argv.audio_only THEN {"audio"} ELSE {})
                                     \cup (IF argv.video_only THEN {"video"} ELSE {})
            /\ IF argv.source = <<>>
               THEN /\ pc' = "done"
                    /\ UNCHANGED <<muxer, sink>>
               ELSE /\ pc' = "build"
                    /\ muxer' = IF argv.muxer = "NULL" THEN "multipartmux"
                                                        ELSE argv.muxer
                    /\ sink' = IF argv.sink = "NULL" THEN "fakesink" ELSE argv.sink
            /\ UNCHANGED <<err, res>>
    /\ UNCHANGED <<argv, media, graph, thiz, loop, req, calls, output>>

\* main(), lines 478-494: the description and gst_parse_launch_full()
BuildGraph ==
    /\ pc = "build"
    /\ ev' = Event("build", "", "", 0, <<>>)
    /\ pipeline_description' = Branches(pipeline_description, uris)
    /\ \/ /\ pipeline' = "alive"
          /\ live' \in BOOLEAN
          /\ reliable' \in BOOLEAN
          /\ pc' = "setup"
          /\ UNCHANGED err
       \/ /\ pipeline' \in {"NULL", "alive"}
          /\ err' = "launch"
          /\ pc' = "done"
          /\ UNCHANGED <<live, reliable>>
    /\ UNCHANGED <<argv, media, res, options, cur, bus, thiz, loop, req, calls, output>>

\* main(), lines 496-513: the bus watch, the console or auto-play, the
\* property-notify watch
Setup ==
    /\ pc = "setup"
    /\ ev' = Event("setup", "", "", 0, <<>>)
    /\ state' = "NULL"
    /\ auto_play' = IF interactive THEN auto_play ELSE TRUE
    /\ deep_notify_id' = IF verbose THEN 1 ELSE deep_notify_id
    /\ pc' = "ready"
    /\ UNCHANGED <<argv, media, res, err, options, graph, buffering, is_live, signal_watch,
                   loop, req, calls, output>>

\* main(), lines 514-522: the Ready request, then the loop
RequestReady ==
    /\ pc = "ready"
    /\ ev' = Event("ready", "", "", 0, <<>>)
    /\ \E ret \in Returns :
          /\ set_player_state("main", "READY", ret)
          /\ IF ret = "FAILURE"
             THEN /\ pc' = "done"
                  /\ UNCHANGED <<loop, signal_watch>>
             ELSE /\ pc' = "loop"
                  /\ loop' = "running"
                  /\ signal_watch' = TRUE
    /\ UNCHANGED <<argv, media, res, err, options, graph, state, auto_play, buffering,
                   deep_notify_id, output>>

(***************************************************************************)
(* The framework: the pipeline moves towards the requested state one step  *)
(* at a time and posts a state-changed message for each step.              *)
(***************************************************************************)
Framework ==
    /\ pipeline = "alive"
    /\ cur # req.to
    /\ Len(bus) < MaxBus
    /\ cur' = Towards(cur, req.to)
    /\ bus' = Append(bus, [old |-> cur, new |-> Towards(cur, req.to)])
    /\ ev' = NoEvent
    /\ calls' = <<>>
    /\ selection' = NoSelection
    /\ UNCHANGED <<argv, media, pc, res, err, options, pipeline_description, pipeline, live, reliable,
                   thiz, loop, req, ops>>

(***************************************************************************)
(* g_main_loop_run(): an iteration of the loop dispatches a source that is *)
(* ready; once a callback has called g_main_loop_quit() the loop returns   *)
(* and dispatches nothing more.                                            *)
(***************************************************************************)
Dispatching == pc = "loop" /\ loop = "running"

(***************************************************************************)
(* message_cb(): one action for each case of the switch.                   *)
(***************************************************************************)
\* what a handler that only reports leaves alone
Reported(e) ==
    /\ Dispatching
    /\ ev' = e
    /\ calls' = <<>>
    /\ selection' = NoSelection
    /\ UNCHANGED <<argv, media, pc, res, err, options, graph, thiz, req, ops>>

\* GST_MESSAGE_ERROR that is reported and nothing more
BusError_reported ==
    /\ Reported(Event("error", "element", "", 0, <<>>))
    /\ UNCHANGED loop

\* GST_MESSAGE_ERROR
BusError ==
    /\ Reported(Event("error", "element", "", 0, <<>>))
    /\ loop' = "quit"

\* GST_MESSAGE_WARNING
BusWarning ==
    /\ Reported(Event("warning", "element", "", 0, <<>>))
    /\ UNCHANGED loop

\* GST_MESSAGE_EOS
BusEOS ==
    /\ Reported(Event("eos", "pipeline", "", 0, <<>>))
    /\ loop' = "quit"

\* GST_MESSAGE_PROPERTY_NOTIFY
BusPropertyNotify ==
    /\ Reported(Event("property-notify", "element", "", 0, <<>>))
    /\ UNCHANGED loop

\* default: every other kind of message
BusOther ==
    /\ Reported(Event("other", "element", "", 0, <<>>))
    /\ UNCHANGED loop

\* the selection without the counters: every stream of a requested type
select_streams_all(collection, i, n_video_streams, n_audio_streams) ==
    SelectSeq([j \in 1..Len(collection) |-> j],
              LAMBDA j : /\ j >= i
                         /\ collection[j] \in streams_selected \cap {"audio", "video"})

\* the loop of GST_MESSAGE_STREAM_COLLECTION from stream i on, with the
\* counters of the video and audio streams selected so far: the positions
\* of the streams it appends to selected_streams
RECURSIVE select_streams(_, _, _, _)
select_streams(collection, i, n_video_streams, n_audio_streams) ==
    IF i > Len(collection) THEN <<>>
    ELSE IF \/ /\ collection[i] = "video"
               /\ "video" \in streams_selected
               /\ n_video_streams < 1
            \/ /\ collection[i] = "audio"
               /\ "audio" \in streams_selected
               /\ n_audio_streams < 1
         THEN <<i>> \o select_streams(collection, i + 1,
                           n_video_streams + (IF collection[i] = "video" THEN 1 ELSE 0),
                           n_audio_streams + (IF collection[i] = "audio" THEN 1 ELSE 0))
         ELSE select_streams(collection, i + 1, n_video_streams, n_audio_streams)

\* the element the select-streams event is sent to
Target(src) ==
    IF SubSeq(src, 1, 9) = "decodebin" THEN src
    ELSE IF SubSeq(src, 1, 8) = "parsebin" THEN "parent of " \o src
    ELSE src

\* GST_MESSAGE_STREAM_COLLECTION; the name of the element that posted the
\* collection is looked at only when there is a selection to send
BusStreamCollection ==
    /\ Dispatching
    /\ \E collection \in Collections :
          LET selected_streams == select_streams(collection, 1, 0, 0)
          IN  IF selected_streams # <<>>
              THEN \E src \in Posters :
                      /\ ev' = Event("stream-collection", src, "", 0, collection)
                      /\ selection' = [to |-> Target(src), streams |-> selected_streams]
              ELSE /\ ev' = Event("stream-collection", "element", "", 0, collection)
                   /\ selection' = NoSelection
    /\ calls' = <<>>
    /\ UNCHANGED <<argv, media, pc, res, err, options, graph, thiz, loop, req, ops>>

\* GST_MESSAGE_STATE_CHANGED posted by the pipeline
BusStateChanged ==
    /\ Dispatching
    /\ bus # <<>>
    /\ ev' = Event("state-changed", "pipeline", Head(bus).new, 0, <<>>)
    /\ bus' = Tail(bus)
    /\ change_player_state(Head(bus).new)
    /\ selection' = NoSelection
    /\ UNCHANGED <<argv, media, pc, res, err, options, pipeline_description, pipeline, live, reliable,
                   cur, auto_play, buffering, deep_notify_id, signal_watch,
                   loop, ops>>

\* GST_MESSAGE_STATE_CHANGED posted by the pipeline for the state it is
\* already in (Paused to Paused, when a pipeline prerolls again); it follows
\* every message the pipeline posted before
BusStateChangedAgain ==
    /\ Dispatching
    /\ pipeline = "alive"
    /\ bus = <<>>
    /\ cur = "PAUSED"
    /\ ev' = Event("state-changed", "pipeline", cur, 0, <<>>)
    /\ change_player_state(cur)
    /\ selection' = NoSelection
    /\ UNCHANGED <<argv, media, pc, res, err, options, graph, auto_play, buffering,
                   deep_notify_id, signal_watch, loop, ops>>

\* GST_MESSAGE_STATE_CHANGED of an element, handled without the test of
\* the source of the message
BusStateChangedElement_recorded ==
    /\ Dispatching
    /\ \E new \in Lifecycle :
          /\ ev' = Event("state-changed", "element", new, 0, <<>>)
          /\ change_player_state(new)
    /\ selection' = NoSelection
    /\ UNCHANGED <<argv, media, pc, res, err, options, graph, auto_play, buffering,
                   deep_notify_id, signal_watch, loop, ops>>

\* GST_MESSAGE_STATE_CHANGED posted by an element inside the pipeline
BusStateChangedElement ==
    /\ \E new \in Lifecycle : Reported(Event("state-changed", "element", new, 0, <<>>))
    /\ UNCHANGED loop

\* GST_MESSAGE_BUFFERING without the test of the buffering flag
message_buffering_repause(percent) ==
    IF is_live
    THEN /\ calls' = <<>>
         /\ UNCHANGED <<buffering, req>>
    ELSE IF percent = 100
    THEN /\ buffering' = FALSE
         /\ IF state = "PLAYING"
            THEN \E ret \in Returns : gst_element_set_state("buffering", "PLAYING", ret)
            ELSE /\ calls' = <<>>
                 /\ UNCHANGED req
    ELSE /\ IF state = "PLAYING"
            THEN \E ret \in Returns : gst_element_set_state("buffering", "PAUSED", ret)
            ELSE /\ calls' = <<>>
                 /\ UNCHANGED req
         /\ buffering' = TRUE

\* GST_MESSAGE_BUFFERING without the test of the liveness flag
message_buffering_live(percent) ==
    IF percent = 100
    THEN /\ buffering' = FALSE
         /\ IF state = "PLAYING"
            THEN \E ret \in Returns : gst_element_set_state("buffering", "PLAYING", ret)
            ELSE /\ calls' = <<>>
                 /\ UNCHANGED req
    ELSE /\ IF ~buffering /\ state = "PLAYING"
            THEN \E ret \in Returns : gst_element_set_state("buffering", "PAUSED", ret)
            ELSE /\ calls' = <<>>
                 /\ UNCHANGED req
         /\ buffering' = TRUE

\* GST_MESSAGE_BUFFERING
message_buffering(percent) ==
    IF is_live
    THEN /\ calls' = <<>>
         /\ UNCHANGED <<buffering, req>>
    ELSE IF percent = 100
    THEN /\ buffering' = FALSE
         /\ IF state = "PLAYING"
            THEN \E ret \in Returns : gst_element_set_state("buffering", "PLAYING", ret)
            ELSE /\ calls' = <<>>
                 /\ UNCHANGED req
    ELSE /\ IF ~buffering /\ state = "PLAYING"
            THEN \E ret \in Returns : gst_element_set_state("buffering", "PAUSED", ret)
            ELSE /\ calls' = <<>>
                 /\ UNCHANGED req
         /\ buffering' = TRUE

BusBuffering ==
    /\ Dispatching
    /\ \E percent \in Percents :
          /\ ev' = Event("buffering", "element", "", percent, <<>>)
          /\ message_buffering(percent)
    /\ selection' = NoSelection
    /\ UNCHANGED <<argv, media, pc, res, err, options, graph, state, auto_play, is_live,
                   deep_notify_id, signal_watch, loop, ops>>

(***************************************************************************)
(* The console and the interrupt.                                          *)
(***************************************************************************)
\* handle_keyboard() whose 'p' always asks for Paused
handle_keyboard_pause_only(op) ==
    IF op = "q"
    THEN /\ quit_app
         /\ calls' = <<>>
         /\ UNCHANGED <<is_live, req>>
    ELSE IF op = "p"
    THEN /\ \E ret \in Returns : set_player_state("console", "PAUSED", ret)
         /\ UNCHANGED loop
    ELSE /\ calls' = <<>>
         /\ UNCHANGED <<is_live, req, loop>>

\* handle_keyboard(): the first character of the line that was read
handle_keyboard(op) ==
    IF op = "q"
    THEN /\ quit_app
         /\ calls' = <<>>
         /\ UNCHANGED <<is_live, req>>
    ELSE IF op = "p"
    THEN /\ IF state = "PAUSED"
            THEN \E ret \in Returns : set_player_state("console", "PLAYING", ret)
            ELSE \E ret \in Returns : set_player_state("console", "PAUSED", ret)
         /\ UNCHANGED loop
    ELSE /\ calls' = <<>>
         /\ UNCHANGED <<is_live, req, loop>>

Keyboard ==
    /\ Dispatching
    /\ interactive
    /\ \E op \in Keys :
          /\ ev' = Event("key", op, "", 0, <<>>)
          /\ handle_keyboard(op)
    /\ selection' = NoSelection
    /\ UNCHANGED <<argv, media, pc, res, err, options, graph, state, auto_play, buffering,
                   deep_notify_id, signal_watch, ops>>

\* intr_handler()
Interrupt ==
    /\ Dispatching
    /\ signal_watch
    /\ ev' = Event("interrupt", "", "", 0, <<>>)
    /\ quit_app
    /\ signal_watch' = FALSE
    /\ calls' = <<>>
    /\ selection' = NoSelection
    /\ UNCHANGED <<argv, media, pc, res, err, options, graph, state, auto_play, buffering,
                   is_live, deep_notify_id, req, ops>>

(***************************************************************************)
(* The end of main().                                                      *)
(***************************************************************************)
\* g_main_loop_run() returns once the loop was told to quit
LoopReturn ==
    /\ pc = "loop"
    /\ loop = "quit"
    /\ pc' = "done"
    /\ ev' = NoEvent
    /\ calls' = <<>>
    /\ selection' = NoSelection
    /\ UNCHANGED <<argv, media, res, err, options, graph, thiz, loop, req, ops>>

\* the releases of done: in the order the spec gives them: the pipeline
\* first, the loop last
done_graph_first ==
    (IF pipeline # "NULL"
     THEN <<"set_state READY", "set_state NULL", "gst_object_unref">>
     ELSE <<>>)
    \o (IF deep_notify_id # 0 THEN <<"g_signal_handler_disconnect">> ELSE <<>>)
    \o (IF loop # "NULL" THEN <<"g_main_loop_unref">> ELSE <<>>)

\* done: what the teardown calls, in the order of lines 525-533
done ==
    (IF loop # "NULL" THEN <<"g_main_loop_unref">> ELSE <<>>)
    \o (IF pipeline # "NULL"
        THEN <<"set_state READY", "set_state NULL", "gst_object_unref">>
        ELSE <<>>)
    \o (IF deep_notify_id # 0 THEN <<"g_signal_handler_disconnect">> ELSE <<>>)

\* done: the teardown, lines 524-541.  The disconnect of the property-notify
\* watch comes after the pipeline was released; what a call on a released
\* object does is undefined: it returns, or the process is aborted.
Teardown ==
    /\ pc = "done"
    /\ pc' \in (IF deep_notify_id # 0 /\ pipeline # "NULL" THEN {"exit", "crashed"}
                                                           ELSE {"exit"})
    /\ ev' = Event("teardown", "", "", 0, <<>>)
    /\ loop' = IF loop # "NULL" THEN "unref" ELSE loop
    /\ pipeline' = IF pipeline # "NULL" THEN "freed" ELSE pipeline
    /\ IF pipeline # "NULL"
       THEN /\ \E r1 \in Returns, r2 \in Returns :
                  calls' = <<Call("done", "READY", r1), Call("done", "NULL", r2)>>
            /\ req' = [to |-> "NULL", by |-> "done"]
            /\ cur' = "NULL"
       ELSE /\ calls' = <<>>
            /\ UNCHANGED <<req, cur>>
    /\ ops' = ops \o done
    /\ selection' = NoSelection
    /\ UNCHANGED <<argv, media, res, err, options, pipeline_description, live, reliable,
                   bus, thiz>>

Next ==
    \/ ParseOptions
    \/ BuildGraph
    \/ Setup
    \/ RequestReady
    \/ Framework
    \/ BusError
    \/ BusWarning
    \/ BusEOS
    \/ BusPropertyNotify
    \/ BusOther
    \/ BusStreamCollection
    \/ BusStateChanged
    \/ BusStateChangedAgain
    \/ BusStateChangedElement
    \/ BusBuffering
    \/ Keyboard
    \/ Interrupt
    \/ LoopReturn
    \/ Teardown

Spec == Init /\ [][Next]_vars

(***************************************************************************)
(* main() from the command line to the description and the pipeline, over  *)
(* the command lines of the description.                                   *)
(***************************************************************************)
InitBuild == Start(BuildCmdlines, "movie")

NextBuild ==
    \/ ParseOptions
    \/ BuildGraph
    \/ Teardown

SpecBuild == InitBuild /\ [][NextBuild]_vars

(***************************************************************************)
(* The same program under the scheduling of the loop and of the framework: *)
(* main() runs on (before the loop, and after it has returned), the loop   *)
(* dispatches a pending bus message, and the framework carries out a       *)
(* request it has accepted.                                                *)
(***************************************************************************)
FairSpec ==
    /\ Init
    /\ [][Next]_vars
    /\ WF_vars(ParseOptions \/ BuildGraph \/ Setup \/ RequestReady)
    /\ WF_vars(LoopReturn \/ Teardown)
    /\ WF_vars(Framework)
    /\ WF_vars(BusStateChanged)

(***************************************************************************)
(* Properties.                                                             *)
(***************************************************************************)
\* the requests of the last step that asked for state s
Asked(cs, s) == {i \in DOMAIN cs : cs[i].to = s}

\* a request of the last step was rejected
Rejected == \E i \in DOMAIN calls : calls[i].ret = "FAILURE"

\* a run of the non-interactive mode that nothing disturbs: the command line
\* and the description are accepted, no request is rejected, and no Error,
\* end-of-stream or interrupt has stopped the loop
Undisturbed ==
    /\ argv.ok /\ argv.source # <<>> /\ ~argv.interactive
    /\ err = "none"
    /\ ~Rejected
    /\ loop # "quit"
    /\ pc \notin {"done", "exit"}

\* C1: in non-interactive mode, when every request is accepted and confirmed
\* and no Error, end-of-stream or interrupt occurs, the recorded state
\* eventually becomes Playing, and it gets there one confirmed state at a
\* time: Ready from Null, Paused from Ready, Playing from Paused.
C1_AutoPlayReachesPlaying ==
    /\ <>(~Undisturbed \/ state = "PLAYING")
    /\ [][(auto_play /\ state' # state)
            => \/ state = "NULL" /\ state' = "READY"
               \/ state = "READY" /\ state' \in {"PAUSED", "NULL"}
               \/ state = "PAUSED" /\ state' \in {"PLAYING", "READY"}
               \/ state = "PLAYING" /\ state' = "PAUSED"]_vars

C1_Witness ==
    /\ Undisturbed
    /\ state = "PLAYING"
    /\ ev.type = "state-changed" /\ ev.new = "PLAYING"

\* C2: on a non-live pipeline that rejects no request, between a buffering event below 100% and the
\* next 100% event (the buffering flag is set over exactly that span) no
\* step issues a Playing request, and the pipeline is not heading for
\* Playing.
C2_NoPlayingWhileStarved ==
    /\ [][(~live /\ reliable /\ buffering /\ buffering')
            => Asked(calls', "PLAYING") = {}]_vars
    /\ [](~live /\ reliable /\ buffering /\ pc = "loop" => req.to # "PLAYING")

\* C3: on a non-live pipeline that rejects no request and that the supervisor has paused because of a
\* buffering event below 100% (the pipeline's last accepted request is that
\* pause), the 100% buffering event issues a Playing request.
C3_ResumesWhenFull ==
    [][(/\ ~live /\ reliable /\ buffering
        /\ req = [to |-> "PAUSED", by |-> "buffering"]
        /\ ev'.type = "buffering" /\ ev'.percent = 100)
          => Asked(calls', "PLAYING") # {}]_vars

C5_RecordedOnConfirmation ==
    [][(state \in Lifecycle /\ state' # state)
         => /\ ev'.type = "state-changed"
            /\ ev'.src = "pipeline"
            /\ state' = ev'.new
            /\ Asked(calls', state') = {}]_vars

C5_Witness ==
    /\ ev.type = "state-changed" /\ ev.src = "pipeline"
    /\ state = "READY" /\ ev.new = "READY"
    /\ Len(calls) = 1 /\ calls[1].to = "PAUSED" /\ calls[1].ret # "FAILURE"

\* C6: in interactive mode no confirmation issues a request; as long as the
\* pipeline's accepted request is the Ready of the startup, every step of
\* the loop other than a console command issues no request and leaves the
\* recorded state at Null or Ready (at Ready once it is Ready); and the
\* request that takes the pipeline past Ready is a console 'p'.
C6_InteractiveStopsAtReady ==
    /\ [][(interactive /\ ev'.type = "state-changed") => calls' = <<>>]_vars
    /\ [][(interactive /\ req.to = "READY" /\ pc' = "loop" /\ ev'.type # "key")
            => /\ calls' = <<>>
               /\ state' \in {"NULL", "READY"}
               /\ (state = "READY" => state' = "READY")]_vars
    /\ [][(interactive /\ req.to \in {"NULL", "READY"}
                       /\ req'.to \in {"PAUSED", "PLAYING"})
            => (ev'.type = "key" /\ ev'.src = "p")]_vars

C6_Witness ==
    /\ interactive
    /\ ev.type = "state-changed" /\ ev.src = "pipeline" /\ ev.new = "READY"
    /\ state = "READY"
    /\ calls = <<>>
    /\ req.to = "READY"

\* the positions of the streams of type t in a collection
OfType(collection, t) == {i \in DOMAIN collection : collection[i] = t}

\* the positions the last select-streams event names
Chosen == {selection.streams[j] : j \in DOMAIN selection.streams}

\* the first position of a non-empty set of positions
First(positions) == CHOOSE i \in positions : \A j \in positions : i <= j

\* C7 (as claimed): after a stream collection is handled, with an audio-only
\* filter every audio stream is selected, with a video-only filter every
\* video stream, and with no filter every stream of the collection.
C7_EveryStreamSelected ==
    ev.type = "stream-collection"
      => /\ streams_selected = {"audio"} => OfType(ev.streams, "audio") \subseteq Chosen
         /\ streams_selected = {"video"} => OfType(ev.streams, "video") \subseteq Chosen
         /\ streams_selected = {} => DOMAIN ev.streams \subseteq Chosen

\* C7 (amended): after a stream collection is handled, the streams selected
\* are the first stream of each requested type that the collection holds, in
\* the order of the collection, and nothing else; when that is no stream at
\* all (no filter, or no stream of a requested type) no selection is sent.
C7_FirstOfEachRequestedType ==
    ev.type = "stream-collection"
      => LET wanted == {First(OfType(ev.streams, t)) :
                          t \in {u \in streams_selected : OfType(ev.streams, u) # {}}}
         IN  /\ Chosen = wanted
             /\ Len(selection.streams) = Cardinality(wanted)
             /\ \A j \in 1..(Len(selection.streams) - 1) :
                   selection.streams[j] < selection.streams[j + 1]
             /\ (wanted = {}) = (selection = NoSelection)

C7_Witness ==
    /\ ev.type = "stream-collection"
    /\ ev.streams = <<"audio", "audio">>
    /\ streams_selected = {"audio"}
    /\ selection.streams = <<1>>

\* C8: with a type filter requested, handling a stream collection that holds
\* a stream of a type that was not requested sends a selection, and the
\* selection names no stream of a type that was not requested.
C8_UnrequestedDeselected ==
    (/\ ev.type = "stream-collection"
     /\ streams_selected # {}
     /\ \E i \in DOMAIN ev.streams : ev.streams[i] \notin streams_selected)
      => /\ selection # NoSelection
         /\ \A i \in Chosen : ev.streams[i] \in streams_selected

\* main() did not get to the run loop: the command line or the description
\* was not accepted, or the Ready request was rejected
StartupFailed ==
    \/ err # "none"
    \/ pipeline # "NULL" /\ loop = "NULL"

\* C9: when the startup fails, main() ends with a non-zero exit code.
C9_StartupFailureExitCode ==
    (pc \in {"done", "exit"} /\ StartupFailed) => res # 0

\* C10: the supervisor does not keep running after a rejected request: at the
\* end of a step in which a request was rejected, the loop has been told to
\* quit or main() is on its way out.
C10_RejectedIsFatal ==
    (pc = "loop" /\ Rejected) => loop = "quit"

\* the places of a call in the log of the teardown
Pos(op) == {i \in DOMAIN ops : ops[i] = op}

\* main() has ended: it returned, or the process was aborted in the teardown
Ended == pc \in {"exit", "crashed"}

\* C11 (as claimed): when main() has ended with a pipeline created, the
\* teardown requested Ready, requested Null, released the pipeline and only
\* then released the loop.
C11_GraphThenLoop ==
    (Ended /\ pipeline # "NULL")
      => /\ Pos("gst_object_unref") # {}
         /\ \A i \in Pos("gst_object_unref"), j \in Pos("g_main_loop_unref") : i < j

\* C11 (amended): nothing is released before done:, main() always gets from
\* done: to its end, and when it has ended with a pipeline created the
\* teardown has made each of its calls exactly once and in this order: the
\* release of the loop (when the loop was created), the Ready request, the
\* Null request, the release of the pipeline and, when the watch was set, the
\* disconnect of the property-notify watch.
C11_TeardownOnceLoopFirst ==
    /\ [](~Ended => ops = <<>>)
    /\ []((Ended /\ pipeline # "NULL")
            => ops = (IF loop # "NULL" THEN <<"g_main_loop_unref">> ELSE <<>>)
                     \o <<"set_state READY", "set_state NULL", "gst_object_unref">>
                     \o (IF deep_notify_id # 0 THEN <<"g_signal_handler_disconnect">>
                                              ELSE <<>>))
    /\ []((Ended /\ pipeline # "NULL")
            => /\ Len(calls) = 2
               /\ calls[1].to = "READY" /\ calls[2].to = "NULL")
    /\ (pc = "done") ~> Ended

C11_Witness ==
    /\ pc = "exit"
    /\ ev.type = "teardown"
    /\ pipeline = "freed"
    /\ ops = <<"g_main_loop_unref", "set_state READY", "set_state NULL",
               "gst_object_unref">>

\* the step handles a shutdown trigger of the run loop
Trigger(e) ==
    \/ e.type \in {"error", "eos", "interrupt"}
    \/ e.type = "key" /\ e.src = "q"

C13_NoSourceIsNoOp ==
    (argv.ok /\ argv.source = <<>>)
      => /\ pc \in {"options", "done", "exit"}
         /\ pipeline_description = <<>>
         /\ pipeline = "NULL"
         /\ loop = "NULL"
         /\ calls = <<>> /\ req.by = "none" /\ cur = "NULL" /\ bus = <<>>
         /\ state = "VOID_PENDING"
         /\ ~auto_play /\ ~signal_watch /\ deep_notify_id = 0
         /\ res = 0 /\ err = "none"
         /\ ops = <<>>

C13_Witness ==
    /\ argv.ok /\ argv.source = <<>>
    /\ pc = "exit"
    /\ ev.type = "teardown"
    /\ res = 0

\* C14: once the description is assembled from a list of n >= 1 URIs it is
\* the fragment 'urisourcebin uri=U1 ! decodebin3 ! <muxer> name=muxer !
\* <sink>' followed, for i = 2..n in the order of the list, by one space and
\* the fragment 'urisourcebin uri=Ui ! decodebin3 ! muxer.', and nothing
\* else; <muxer> and <sink> are the ones of -m and -S, or multipartmux and
\* fakesink.  Before that the description is empty.
C14_DescriptionOfTheList ==
    /\ pc \in {"options", "build"} => pipeline_description = <<>>
    /\ (pc \notin {"options", "build"} /\ uris # <<>>)
         => LET d == pipeline_description
                n == Len(uris)
            IN  /\ Len(d) = 6 + 3 * (n - 1)
                /\ SubSeq(d, 1, 6) = <<"urisourcebin uri=", uris[1], " ! decodebin3 ! ",
                                       muxer, " name=muxer ! ", sink>>
                /\ \A i \in 2..n :
                      SubSeq(d, 3 * i + 1, 3 * i + 3)
                        = <<" urisourcebin uri=", uris[i], " ! decodebin3 ! muxer.">>
                /\ uris = argv.source
                /\ muxer = (IF argv.muxer = "NULL" THEN "multipartmux" ELSE argv.muxer)
                /\ sink = (IF argv.sink = "NULL" THEN "fakesink" ELSE argv.sink)

C14_Witness ==
    /\ pc = "setup"
    /\ uris = <<"a", "b", "a">>
    /\ muxer = "matroskamux" /\ sink = "fakesink"
    /\ Len(pipeline_description) = 12
    /\ pipeline_description[11] = "a"

\* C15: with the liveness flag set, the handling of a buffering event of any
\* percentage issues no request and leaves the buffering flag, the recorded
\* state and the pipeline's accepted request as they were.
C15_LiveIgnoresBuffering ==
    [][(ev'.type = "buffering" /\ is_live)
         => /\ calls' = <<>>
            /\ UNCHANGED <<buffering, state, req, is_live>>]_vars

C15_Witness ==
    /\ ev.type = "buffering" /\ ev.percent < 100
    /\ is_live
    /\ state = "PLAYING"
    /\ ~buffering
    /\ calls = <<>>
    /\ req.to = "PLAYING"

\* C16: the handling of a state-changed message of an inner element leaves
\* the recorded state, the buffering flag and the liveness flag as they were
\* and issues no request, with auto-play on or off.
C16_ElementStateIgnored ==
    [][(ev'.type = "state-changed" /\ ev'.src = "element")
         => /\ calls' = <<>>
            /\ UNCHANGED <<state, buffering, is_live, req, loop>>]_vars

C16_Witness ==
    /\ ev.type = "state-changed" /\ ev.src = "element"
    /\ auto_play
    /\ ev.new = "PAUSED"
    /\ state = "READY"
    /\ calls = <<>>

\* the state after s in the order of GstState
Succ(s) == GstStates[Rank(s) + 1]

\* C17: the confirmation of the state that is already recorded changes
\* nothing and issues nothing; and a step issues an auto-play request only
\* when it changes the recorded state to Ready or Paused, and then exactly
\* one, for the state right after the one it recorded.
C17_AutoPlayOncePerChange ==
    /\ [][(ev'.type = "state-changed" /\ ev'.src = "pipeline" /\ ev'.new = state)
            => /\ calls' = <<>>
               /\ UNCHANGED <<state, req, is_live>>]_vars
    /\ [][(\E i \in DOMAIN calls' : calls'[i].by = "auto")
            => /\ state' # state
               /\ state' \in {"READY", "PAUSED"}
               /\ Len(calls') = 1
               /\ calls'[1].to = Succ(state')]_vars

C17_Witness ==
    /\ ev.type = "state-changed" /\ ev.src = "pipeline"
    /\ ev.new = "PAUSED" /\ state = "PAUSED"
    /\ auto_play
    /\ calls = <<>>
    /\ req = [to |-> "PLAYING", by |-> "auto"]

\* C18: a console 'p' issues exactly one request: for Playing when the
\* recorded state is Paused, for Paused in every other recorded state; a
\* character other than 'p' issues no request, and other than 'q' no
\* shutdown; no console command changes the recorded state.
C18_PTogglesOnRecordedState ==
    [][(ev'.type = "key")
         => /\ state' = state
            /\ (ev'.src = "p")
                 => /\ Len(calls') = 1
                    /\ calls'[1].by = "console"
                    /\ calls'[1].to = (IF state = "PAUSED" THEN "PLAYING" ELSE "PAUSED")
                    /\ loop' = loop
            /\ (ev'.src # "p") => (calls' = <<>> /\ req' = req)
            /\ (ev'.src \notin {"p", "q"}) => loop' = loop]_vars

C18_Witness ==
    /\ ev.type = "key" /\ ev.src = "p"
    /\ state = "PAUSED"
    /\ Len(calls) = 1 /\ calls[1].to = "PLAYING" /\ calls[1].ret = "ASYNC"
    /\ req = [to |-> "PLAYING", by |-> "console"]

\* C19: two console 'p' handled one right after the other, with no
\* confirmation handled in between, ask for different states.
C19_SuccessivePAlternate ==
    [][(/\ ev.type = "key" /\ ev.src = "p"
        /\ ev'.type = "key" /\ ev'.src = "p")
          => calls'[1].to # calls[1].to]_vars

\* C20: in the log of the teardown every call on the pipeline (the Ready
\* and Null requests, the disconnect of the property-notify watch) comes
\* before the release of the pipeline.
C20_NoUseAfterRelease ==
    \A i \in Pos("gst_object_unref"), j \in DOMAIN ops :
        ops[j] \in {"set_state READY", "set_state NULL", "g_signal_handler_disconnect"}
          => j < i

=============================================================================
